---- MODULE Spec2Model ----
(***************************************************************************)
(* A model of the StockMarketSim training scripts:                         *)
(*   src/ml_pipeline/feature_engineering.py  (tabular features)            *)
(*   src/ml_pipeline/model_training.py       (safeguard, split, XGBoost)   *)
(*   src/scripts/train_stock_model.py        (sequence windows, LSTM)      *)
(*                                                                         *)
(* A behaviour is one session of one of three programs, chosen by `prog`:  *)
(*   "ml_pipeline"       feature_engineering.py, then model_training.py,   *)
(*                       over price files described by their tickers,      *)
(*                       first dates and bar counts;                       *)
(*   "features"          calls of compute_orthogonal_features on one       *)
(*                       explicit OHLCV frame;                             *)
(*   "train_stock_model" calls of create_sequences_multi_factor and a run  *)
(*                       of train_model on explicit close series.          *)
(* Floating-point values are reduced fractions <<n, d>> (see Frac).        *)
(***************************************************************************)
EXTENDS Integers, Sequences, FiniteSets, TLC

VARIABLES
    prog,          \* which program this session runs
    pc,            \* position of the running script
    csv_files,     \* ml_pipeline: price files found by glob, in glob order
    fundamentals,  \* ml_pipeline: fundamentals_sentiment.csv (exists, tickers)
    master,        \* ml_pipeline: master_training_data.csv (exists, blocks)
    notifier,      \* ml_pipeline: what the webhook endpoint does with a POST
    run,           \* ml_pipeline: what train_xgboost_model has done so far
    df,            \* features: the caller's OHLCV frame, column by column
    features_df,   \* features: what the last compute_orthogonal_features returned
    fe_calls,      \* features: calls of compute_orthogonal_features so far
    data,          \* train_stock_model: the close prices (fetch_data's result)
    seq_length,    \* train_stock_model: window length of the direct calls
    seq_calls,     \* train_stock_model: the calls of create_sequences_multi_factor
    tm             \* train_stock_model: what train_model has done so far

pipeline_vars == <<csv_files, fundamentals, master, notifier, run>>
features_vars == <<df, features_df, fe_calls>>
sequence_vars == <<data, seq_length, seq_calls, tm>>
vars == <<prog, pc, pipeline_vars, features_vars, sequence_vars>>

----------------------------------------------------------------------------
(* Bounds *)

MaxCalls == 2      \* calls of one function on one input object
ExtraBars == 60    \* bars beyond the slow lookback in the longest frame
MaxShort == 5      \* the short close series have 0..MaxShort bars
NumSeeds == 2      \* draws of the synthetic volumes that are told apart

----------------------------------------------------------------------------
(* Program constants *)

MIN_VALID_SAMPLES == 50000
SMA_SLOW == 200
SMA_FAST == 50
RSI_PERIOD == 14
VOL_PERIOD == 20
FORWARD_DAYS == 5
SEQ_LENGTH == 60

----------------------------------------------------------------------------
(* int(n * 0.8): the product of n with the double nearest to 0.8, rounded   *)
(* to a double, then truncated.  The double 0.8 is                         *)
(* 3602879701896397 / 2^52; its numerator is held in four 13-bit limbs     *)
(* (least significant first) so that every intermediate fits in 32 bits.   *)

Limb == 8192
Frac08 == <<3277, 1638, 4915, 6553>>

RECURSIVE BitLength(_)
BitLength(q) == IF q = 0 THEN 0 ELSE 1 + BitLength(q \div 2)

RECURSIVE Pow2(_)
Pow2(e) == IF e <= 0 THEN 1 ELSE 2 * Pow2(e - 1)

\* the exact product n * 0.8 as <<integer part, f3, f2, f1, f0>> (fraction limbs)
ExactTimes08(n) ==
    LET p0 == n * Frac08[1]
        p1 == n * Frac08[2] + (p0 \div Limb)
        p2 == n * Frac08[3] + (p1 \div Limb)
        p3 == n * Frac08[4] + (p2 \div Limb)
    IN  <<p3 \div Limb, p3 % Limb, p2 % Limb, p1 % Limb, p0 % Limb>>

\* round-to-nearest-even of the exact product carries into the next integer
RoundsUpToInteger(p) ==
    LET b == BitLength(p[1])
        low == p[4] * Limb + p[5]
    IN  /\ b >= 2
        /\ p[2] = Limb - 1
        /\ p[3] = Limb - 1
        /\ (Limb * Limb) - low <= Pow2(b - 2)

SplitIdx(n) ==
    LET p == ExactTimes08(n)
    IN  IF RoundsUpToInteger(p) THEN p[1] + 1 ELSE p[1]

----------------------------------------------------------------------------
(* Tables of the tabular pipeline.  A table is a sequence of blocks, one    *)
(* block per run of consecutive rows of one ticker:                        *)
(*   [ticker, first, n, fund]  rows dated first .. first+n-1, fund = the   *)
(*   rows carry PE_Ratio / ROE / DebtToEquity / Sentiment_Score values.    *)

RECURSIVE Rows(_)
Rows(t) == IF t = <<>> THEN 0 ELSE Head(t).n + Rows(Tail(t))

\* t.iloc[:k]
RECURSIVE Take(_, _)
Take(t, k) ==
    IF k <= 0 \/ t = <<>> THEN <<>>
    ELSE IF Head(t).n <= k THEN <<Head(t)>> \o Take(Tail(t), k - Head(t).n)
    ELSE <<[Head(t) EXCEPT !.n = k]>>

\* t.iloc[k:]
RECURSIVE Drop(_, _)
Drop(t, k) ==
    IF t = <<>> THEN <<>>
    ELSE IF k <= 0 THEN t
    ELSE IF Head(t).n <= k THEN Drop(Tail(t), k - Head(t).n)
    ELSE <<[Head(t) EXCEPT !.first = @ + k, !.n = @ - k]>> \o Tail(t)

\* pd.concat of two tables of one frame: adjoining rows of one ticker are one block
Concat(a, b) ==
    IF a = <<>> THEN b
    ELSE IF b = <<>> THEN a
    ELSE LET l == a[Len(a)]
             h == Head(b)
         IN  IF /\ l.ticker = h.ticker
                /\ l.fund = h.fund
                /\ l.first + l.n = h.first
             THEN SubSeq(a, 1, Len(a) - 1) \o <<[l EXCEPT !.n = @ + h.n]>> \o Tail(b)
             ELSE a \o b

RECURSIVE MaxDate(_)
MaxDate(t) ==
    IF t = <<>> THEN 0
    ELSE LET m == MaxDate(Tail(t))
             d == Head(t).first + Head(t).n - 1
         IN  IF d > m THEN d ELSE m

RECURSIVE MinDate(_)
MinDate(t) ==
    IF Len(t) = 1 THEN Head(t).first
    ELSE LET m == MinDate(Tail(t))
         IN  IF Head(t).first < m THEN Head(t).first ELSE m

----------------------------------------------------------------------------
(* feature_engineering.py over price files given by their bar counts.  A    *)
(* file [ticker, first, bars] holds one bar per date first .. first+bars-1, *)
(* with prices that move inside every 14-bar window and positive volumes,   *)
(* so the only rows compute_orthogonal_features drops are those whose       *)
(* rolling windows are not full and those whose 5-day forward return runs   *)
(* past the last bar.                                                       *)

\* the rows compute_orthogonal_features returns for a file, as <<first date, n>>
FeatureRows(file) ==
    IF file.bars < SMA_SLOW THEN <<0, 0>>
    ELSE LET n == file.bars - FORWARD_DAYS - (SMA_SLOW - 1)
         IN  IF n <= 0 THEN <<0, 0>> ELSE <<file.first + (SMA_SLOW - 1), n>>

\* merge_fundamentals: fundamentals_df['Ticker'] raises KeyError on the
\* column-less pd.DataFrame() that stands in for a missing file
MergeRaises(fund_df) == ~fund_df.exists

MergeFundamentals(block, ticker, fund_df) ==
    IF ticker \notin fund_df.tickers THEN block
    ELSE [block EXCEPT !.fund = TRUE]

\* the loop of process_all_tickers: the tables appended to all_data
RECURSIVE AllData(_, _)
AllData(files, fund_df) ==
    IF files = <<>> THEN <<>>
    ELSE LET file == Head(files)
             fr == FeatureRows(file)
             rest == AllData(Tail(files), fund_df)
         IN  IF fr[2] = 0 THEN rest                       \* features_df.empty
             ELSE IF MergeRaises(fund_df) THEN rest       \* except: print, next file
             ELSE <<MergeFundamentals(
                       [ticker |-> file.ticker, first |-> fr[1], n |-> fr[2],
                        fund |-> FALSE],
                       file.ticker, fund_df)>> \o rest

ProcessAllTickers ==
    /\ prog = "ml_pipeline"
    /\ pc = "start"
    /\ LET all_data == AllData(csv_files, fundamentals)
       IN  master' = IF all_data # <<>>
                     THEN [exists |-> TRUE, blocks |-> all_data]
                     ELSE master
    /\ pc' = "features_done"
    /\ UNCHANGED <<prog, csv_files, fundamentals, notifier, run, features_vars, sequence_vars>>

----------------------------------------------------------------------------
(* model_training.py *)

\* the required columns PE_Ratio and Sentiment_Score exist in the CSV
HasFundColumns(t) == \E i \in 1..Len(t) : t[i].fund

\* df.dropna(subset=features + [target])
DropNa(t) == SelectSeq(t, LAMBDA b : b.fund)

\* mutant: the threshold itself is refused
SafeguardAborts_Inclusive(n) == n <= MIN_VALID_SAMPLES

\* if len(df) < MIN_VALID_SAMPLES
SafeguardAborts(n) == n < MIN_VALID_SAMPLES

\* mutant: the test slice starts one row late
TrainTest_Gap(d) ==
    LET split_idx == SplitIdx(Rows(d))
    IN  <<Take(d, split_idx), Drop(d, split_idx + 1)>>

\* X.iloc[:split_idx], X.iloc[split_idx:]
TrainTest(d) ==
    LET split_idx == SplitIdx(Rows(d))
    IN  <<Take(d, split_idx), Drop(d, split_idx)>>

NoRun ==
    [reached |-> "none", df |-> <<>>, alert_attempts |-> 0, alert_log |-> "none",
     fit_calls |-> 0, X_train |-> <<>>, X_test |-> <<>>, exported |-> FALSE]

\* train_xgboost_model up to its return or to the requests.post call
TrainXgboostModel ==
    /\ prog = "ml_pipeline"
    /\ pc \in {"start", "features_done"}
    /\ UNCHANGED <<prog, csv_files, fundamentals, master, notifier, features_vars, sequence_vars>>
    /\ IF ~master.exists
       THEN /\ pc' = "returned"
            /\ run' = [NoRun EXCEPT !.reached = "not_found"]
       ELSE IF ~HasFundColumns(master.blocks)
       THEN /\ pc' = "crashed"                            \* KeyError in dropna
            /\ run' = [NoRun EXCEPT !.reached = "dropna"]
       ELSE LET d == DropNa(master.blocks)
            IN  IF SafeguardAborts(Rows(d))
                THEN /\ pc' = "requests_post"
                     /\ run' = [NoRun EXCEPT !.reached = "safeguard",
                                             !.df = d,
                                             !.alert_attempts = 1]
                ELSE LET tt == TrainTest(d)
                     IN  /\ pc' = "returned"
                         /\ run' = [NoRun EXCEPT !.reached = "export",
                                                 !.df = d,
                                                 !.X_train = tt[1],
                                                 !.X_test = tt[2],
                                                 !.fit_calls = 1,
                                                 !.exported = TRUE]

\* requests.post returns a response: "Alert dispatched", then return
PostReturns ==
    /\ pc = "requests_post"
    /\ notifier = "delivers"
    /\ pc' = "returned"
    /\ run' = [run EXCEPT !.alert_log = "dispatched"]
    /\ UNCHANGED <<prog, csv_files, fundamentals, master, notifier, features_vars, sequence_vars>>

\* requests.post raises: "Failed to dispatch alert", then return
PostRaises ==
    /\ pc = "requests_post"
    /\ notifier = "raises"
    /\ pc' = "returned"
    /\ run' = [run EXCEPT !.alert_log = "failed"]
    /\ UNCHANGED <<prog, csv_files, fundamentals, master, notifier, features_vars, sequence_vars>>

\* notifier = "never_answers": requests.post is given no timeout, so the
\* call does not return and no step of the script is enabled.

----------------------------------------------------------------------------
(* Numbers.  A float that is a quotient of integers is held as the reduced  *)
(* fraction <<n, d>>, d > 0; NaN is <<0, 0>> and +inf is <<1, 0>>.           *)

NaN == <<0, 0>>
Inf == <<1, 0>>

Abs(x) == IF x < 0 THEN -x ELSE x

RECURSIVE GCD(_, _)
GCD(a, b) == IF b = 0 THEN a ELSE GCD(b, a % b)

\* n / d for integers n and d >= 0, as numpy and pandas divide floats
Frac(n, d) ==
    IF d = 0 THEN (IF n = 0 THEN NaN ELSE Inf)
    ELSE LET g == GCD(Abs(n), d) IN <<n \div g, d \div g>>

\* f[lo] + ... + f[hi], summed by halves to keep the evaluation shallow
RECURSIVE SumRange(_, _, _)
SumRange(f, lo, hi) ==
    IF lo > hi THEN 0
    ELSE IF lo = hi THEN f[lo]
    ELSE LET mid == (lo + hi) \div 2
         IN  SumRange(f, lo, mid) + SumRange(f, mid + 1, hi)

Max2(a, b) == IF a > b THEN a ELSE b

----------------------------------------------------------------------------
(* compute_orthogonal_features on an explicit frame.  A frame is a record   *)
(* of columns, each a sequence over the rows; Date is the index.  Raw       *)
(* columns hold integers (prices in hundredths), derived columns fractions. *)

RawColumns == {"Date", "Open", "High", "Low", "Close", "Volume"}

FeaturesToKeep ==
    {"Date", "Open", "High", "Low", "Close", "Volume", "RSI_14", "SMA_Ratio",
     "ATR_Pct", "Relative_Volume", "Target", "Forward_5D_Return"}

\* the columns that hold floats; the raw columns and Target hold integers
FloatColumns ==
    {"RSI_14", "SMA_Ratio", "ATR_Pct", "Vol_SMA_20", "Relative_Volume",
     "Forward_5D_Return"}

EmptyFrame == [Date |-> <<>>]                  \* pd.DataFrame()

FrameLen(f) == Len(f.Date)

\* delta.where(delta > 0, 0) and -delta.where(delta < 0, 0); delta is NaN on
\* the first row and NaN > 0, NaN < 0 are both False
GainAt(close, i) ==
    IF i > 1 /\ close[i] - close[i - 1] > 0 THEN close[i] - close[i - 1] ELSE 0

LossAt(close, i) ==
    IF i > 1 /\ close[i] - close[i - 1] < 0 THEN close[i - 1] - close[i] ELSE 0

\* 100 - 100 / (1 + g / l) for the window sums g and l of gains and losses
RsiOf(g, l) ==
    IF l = 0 THEN (IF g = 0 THEN NaN ELSE <<100, 1>>)
    ELSE Frac(100 * g, g + l)

\* mutant: a full window of earlier rows is required, the row itself excluded
RollingFirst_Late(window) == window + 1

\* first row (1-based) at which rolling(window).mean() is defined
RollingFirst(window) == window

\* RSI_14 at row i
TabRsi(close, i) ==
    IF i < RollingFirst(RSI_PERIOD) THEN NaN
    ELSE RsiOf(SumRange([j \in 1..Len(close) |-> GainAt(close, j)],
                        i - RSI_PERIOD + 1, i),
               SumRange([j \in 1..Len(close) |-> LossAt(close, j)],
                        i - RSI_PERIOD + 1, i))

\* SMA_Ratio at row i: rolling(50).mean() / rolling(200).mean()
TabSmaRatio(close, i) ==
    IF i < RollingFirst(SMA_SLOW) \/ i < RollingFirst(SMA_FAST) THEN NaN
    ELSE Frac(SumRange(close, i - SMA_FAST + 1, i) * SMA_SLOW,
              SumRange(close, i - SMA_SLOW + 1, i) * SMA_FAST)

\* np.max over [high - low, |high - close.shift()|, |low - close.shift()|],
\* skipping the NaNs of the first row
TrueRange(f, i) ==
    IF i = 1 THEN f.High[i] - f.Low[i]
    ELSE Max2(f.High[i] - f.Low[i],
              Max2(Abs(f.High[i] - f.Close[i - 1]), Abs(f.Low[i] - f.Close[i - 1])))

\* ATR_Pct at row i
TabAtrPct(f, i) ==
    IF i < RollingFirst(RSI_PERIOD) THEN NaN
    ELSE Frac(SumRange([j \in 1..FrameLen(f) |-> TrueRange(f, j)],
                       i - RSI_PERIOD + 1, i),
              RSI_PERIOD * f.Close[i])

\* Vol_SMA_20 at row i
TabVolSma(volume, i) ==
    IF i < RollingFirst(VOL_PERIOD) THEN NaN
    ELSE Frac(SumRange(volume, i - VOL_PERIOD + 1, i), VOL_PERIOD)

\* Relative_Volume at row i
TabRelVol(volume, i) ==
    IF i < RollingFirst(VOL_PERIOD) THEN NaN
    ELSE Frac(volume[i] * VOL_PERIOD, SumRange(volume, i - VOL_PERIOD + 1, i))

\* mutant: the forward window is one bar short
ForwardReturn_Short(close, i) ==
    IF i + FORWARD_DAYS - 1 > Len(close) THEN NaN
    ELSE Frac(close[i + FORWARD_DAYS - 1] - close[i], close[i])

\* Forward_5D_Return at row i: close.shift(-5) / close - 1.0
ForwardReturn(close, i) ==
    IF i + FORWARD_DAYS > Len(close) THEN NaN
    ELSE Frac(close[i + FORWARD_DAYS] - close[i], close[i])

\* Target at row i: (Forward_5D_Return > 0.005).astype(int); NaN > x is False
TargetOf(close, i) ==
    IF /\ i + FORWARD_DAYS <= Len(close)
       /\ (close[i + FORWARD_DAYS] - close[i]) * 1000 > 5 * close[i]
    THEN 1 ELSE 0

DerivedColumns(f) ==
    LET n == FrameLen(f)
    IN  [RSI_14            |-> [i \in 1..n |-> TabRsi(f.Close, i)],
         SMA_Ratio         |-> [i \in 1..n |-> TabSmaRatio(f.Close, i)],
         ATR_Pct           |-> [i \in 1..n |-> TabAtrPct(f, i)],
         Vol_SMA_20        |-> [i \in 1..n |-> TabVolSma(f.Volume, i)],
         Relative_Volume   |-> [i \in 1..n |-> TabRelVol(f.Volume, i)],
         Forward_5D_Return |-> [i \in 1..n |-> ForwardReturn(f.Close, i)],
         Target            |-> [i \in 1..n |-> TargetOf(f.Close, i)]]

\* the frame with the derived columns assigned (old values overwritten)
WithDerived(f) ==
    LET d == DerivedColumns(f)
    IN  [c \in (DOMAIN f) \cup (DOMAIN d) |-> IF c \in DOMAIN d THEN d[c] ELSE f[c]]

\* df.dropna(inplace=True): the rows without a NaN in any column
KeptRows(f) ==
    SelectSeq([i \in 1..FrameLen(f) |-> i],
              LAMBDA i : \A c \in (DOMAIN f) \cap FloatColumns : f[c][i] # NaN)

DropNaRows(f) ==
    LET kept == KeptRows(f)
    IN  [c \in DOMAIN f |-> [k \in 1..Len(kept) |-> f[c][kept[k]]]]

\* compute_orthogonal_features(df): <<the caller's frame afterwards, the return value>>
ComputeOrthogonalFeatures(f) ==
    IF FrameLen(f) < SMA_SLOW THEN <<f, EmptyFrame>>
    ELSE LET g == DropNaRows(WithDerived(f))
         IN  <<g, [c \in FeaturesToKeep |-> g[c]]>>

CallComputeOrthogonalFeatures ==
    /\ prog = "features"
    /\ fe_calls < MaxCalls
    /\ LET r == ComputeOrthogonalFeatures(df)
       IN  /\ df' = r[1]
           /\ features_df' = r[2]
    /\ fe_calls' = fe_calls + 1
    /\ UNCHANGED <<prog, pc, pipeline_vars, sequence_vars>>

----------------------------------------------------------------------------
(* train_stock_model.py.  Arrays are sequences; At(a, i) is a[i] of the     *)
(* source, whose indices start at 0.  Closes are integers 1..MaxPrice.      *)

At(a, i) == a[i + 1]

\* np.log of a close, in millionths
LnMicro ==
    <<0, 693147, 1098612, 1386294, 1609438, 1791759, 1945910, 2079442,
      2197225, 2302585>>

MaxPrice == Len(LnMicro)

\* np.diff(np.log(closes))
LogReturns(closes) ==
    [k \in 1..(Len(closes) - 1) |-> LnMicro[closes[k + 1]] - LnMicro[closes[k]]]

\* gains[k], losses[k] of calculate_rsi: deltas[k] = prices[k+1] - prices[k]
SeqGain(prices, k) ==
    IF At(prices, k + 1) - At(prices, k) > 0
    THEN At(prices, k + 1) - At(prices, k) ELSE 0

SeqLoss(prices, k) ==
    IF At(prices, k + 1) - At(prices, k) < 0
    THEN At(prices, k) - At(prices, k + 1) ELSE 0

\* the value calculate_rsi stores for the window sums g and l
SeqRsiOf(g, l) == IF l = 0 THEN <<100, 1>> ELSE Frac(100 * g, g + l)

\* rsi[idx] of calculate_rsi(prices, 14): the loop writes rsi[i+1] for
\* i in range(period, len(deltas)), from gains[i-period:i]
CalculateRsi(prices, idx) ==
    LET i == idx - 1
    IN  IF i >= RSI_PERIOD /\ i < Len(prices) - 1
        THEN SeqRsiOf(SumRange([k \in 1..(Len(prices) - 1) |-> SeqGain(prices, k - 1)],
                               i - RSI_PERIOD + 1, i),
                      SumRange([k \in 1..(Len(prices) - 1) |-> SeqLoss(prices, k - 1)],
                               i - RSI_PERIOD + 1, i))
        ELSE <<50, 1>>

\* sum of a[lo:hi] of the source
SumSlice(a, lo, hi) == SumRange(a, lo + 1, hi)

\* ratio[i] of calculate_sma_ratio(prices, 50, 200)
CalculateSmaRatio(prices, i) ==
    IF i >= SMA_SLOW /\ i < Len(prices) /\ SumSlice(prices, i - SMA_SLOW, i) > 0
    THEN Frac(SumSlice(prices, i - SMA_FAST, i) * SMA_SLOW,
              SumSlice(prices, i - SMA_SLOW, i) * SMA_FAST)
    ELSE <<1, 1>>

\* tr of calculate_atr_pct at j, in hundredths: highs = closes * 1.01 and
\* lows = closes * 0.99
SeqTrueRange(closes, j) ==
    Max2(101 * At(closes, j) - 99 * At(closes, j),
         Max2(Abs(101 * At(closes, j) - 100 * At(closes, j - 1)),
              Abs(99 * At(closes, j) - 100 * At(closes, j - 1))))

\* atr_pct[i] of calculate_atr_pct(highs, lows, closes, 14)
CalculateAtrPct(closes, i) ==
    IF i >= RSI_PERIOD + 1 /\ i < Len(closes) /\ At(closes, i) > 0
    THEN Frac(SumRange([k \in 1..Len(closes) |->
                            IF k = 1 THEN 0 ELSE SeqTrueRange(closes, k - 1)],
                       i - RSI_PERIOD + 1, i),
              RSI_PERIOD * 100 * At(closes, i))
    ELSE <<0, 1>>

\* rel_vol[i] of calculate_relative_volume(volumes, 20)
CalculateRelativeVolume(volumes, i) ==
    IF i >= VOL_PERIOD /\ i < Len(volumes) /\ SumSlice(volumes, i - VOL_PERIOD, i) > 0
    THEN Frac(At(volumes, i) * VOL_PERIOD, SumSlice(volumes, i - VOL_PERIOD, i))
    ELSE <<1, 1>>

\* mutant: the loop stops one pass early
WindowCount_Short(n, w) == IF n - 2 - w > 0 THEN n - 2 - w ELSE 0

\* number of passes of the loop: range(len(log_returns) - seq_length)
WindowCount(n, w) == IF n - 1 - w > 0 THEN n - 1 - w ELSE 0

\* mutant: the window is taken one step ahead and holds the label's return
Sample_Peek(log_returns, closes, volumes, w, i) ==
    LET idx == i + w
    IN  <<SubSeq(log_returns, i + 2, i + w + 1) \o
            <<Frac(CalculateRsi(closes, idx)[1], CalculateRsi(closes, idx)[2] * 100),
              CalculateSmaRatio(closes, idx),
              CalculateAtrPct(closes, idx),
              CalculateRelativeVolume(volumes, idx)>>,
          At(log_returns, i + w)>>

\* mutant: the volume ratio is left out of the vector
Sample_NoRelVol(log_returns, closes, volumes, w, i) ==
    LET idx == i + w
    IN  <<SubSeq(log_returns, i + 1, i + w) \o
            <<Frac(CalculateRsi(closes, idx)[1], CalculateRsi(closes, idx)[2] * 100),
              CalculateSmaRatio(closes, idx),
              CalculateAtrPct(closes, idx)>>,
          At(log_returns, i + w)>>

\* the sample the loop appends at pass i: <<x_combined, y_raw>>
Sample(log_returns, closes, volumes, w, i) ==
    LET idx == i + w
    IN  <<SubSeq(log_returns, i + 1, i + w) \o
            <<Frac(CalculateRsi(closes, idx)[1], CalculateRsi(closes, idx)[2] * 100),
              CalculateSmaRatio(closes, idx),
              CalculateAtrPct(closes, idx),
              CalculateRelativeVolume(volumes, idx)>>,
          At(log_returns, i + w)>>

\* create_sequences_multi_factor(data, seq_length) with the volumes that
\* np.random.uniform drew: [X, y]
CreateSequencesMultiFactor(closes, volumes, w) ==
    IF Len(closes) < 2 THEN [X |-> <<>>, y |-> <<>>]
    ELSE LET log_returns == SubSeq(LogReturns(closes), 1, Len(closes) - 1)
             samples == [k \in 1..WindowCount(Len(closes), w) |->
                            Sample(log_returns, closes, volumes, w, k - 1)]
         IN  [X |-> [k \in DOMAIN samples |-> samples[k][1]],
              y |-> [k \in DOMAIN samples |-> samples[k][2]]]

\* what one call of create_sequences_multi_factor saw and returned
CallRecord(closes, volumes, w) ==
    LET r == CreateSequencesMultiFactor(closes, volumes, w)
    IN  [data |-> closes, volumes |-> volumes, seq_length |-> w, X |-> r.X, y |-> r.y]

\* X[:split_idx], X[split_idx:] of train_model
SplitSeq(x) ==
    LET split_idx == SplitIdx(Len(x))
    IN  <<SubSeq(x, 1, split_idx), SubSeq(x, split_idx + 1, Len(x))>>

NoTrainModel ==
    [reached |-> "none", X |-> <<>>, y |-> <<>>, X_train |-> <<>>, y_train |-> <<>>,
     X_val |-> <<>>, y_val |-> <<>>, fit_calls |-> 0, saved |-> FALSE]

\* train_model with raw_data = data and the volumes np.random.uniform drew
TrainModelResult(raw_data, volumes) ==
    IF Len(raw_data) < SEQ_LENGTH * 2
    THEN [NoTrainModel EXCEPT !.reached = "insufficient_data"]
    ELSE LET r == CreateSequencesMultiFactor(raw_data, volumes, SEQ_LENGTH)
         IN  IF Len(r.X) = 0
             THEN [NoTrainModel EXCEPT !.reached = "no_sequences"]
             ELSE [reached |-> "saved", X |-> r.X, y |-> r.y,
                   X_train |-> SplitSeq(r.X)[1], y_train |-> SplitSeq(r.y)[1],
                   X_val |-> SplitSeq(r.X)[2], y_val |-> SplitSeq(r.y)[2],
                   fit_calls |-> 1, saved |-> TRUE]

----------------------------------------------------------------------------
(* The sessions *)

Tickers == {"RELIANCE", "TCS"}

HalfRows == MIN_VALID_SAMPLES \div 2

\* bar counts: too short for any row, and half the safeguard's minimum -1, +0, +1
BarChoices ==
    {SMA_SLOW - 1} \cup
    {HalfRows + d + FORWARD_DAYS + (SMA_SLOW - 1) : d \in {-1, 0, 1}}

FirstDates == {1, 2}

FileSeqs ==
    {<<>>} \cup
    {<<[ticker |-> t, first |-> f, bars |-> b]>> :
        t \in Tickers, f \in {1}, b \in BarChoices} \cup
    {<<[ticker |-> t1, first |-> 1, bars |-> b1],
       [ticker |-> t2, first |-> f2, bars |-> b2]>> :
        <<t1, t2>> \in {p \in Tickers \X Tickers : p[1] # p[2]},
        <<b1, b2>> \in BarChoices \X BarChoices, f2 \in FirstDates}

FundChoices ==
    {[exists |-> FALSE, tickers |-> {}]} \cup
    {[exists |-> TRUE, tickers |-> s] : s \in SUBSET Tickers}

\* close of bar i (index from 0) of each close series shape, in 1..MaxPrice
PriceOf(shape, i) ==
    CASE shape = "flat"   -> 5
      [] shape = "ramp"   -> 1 + (i \div 25)
      [] shape = "saw"    -> 1 + (i % 7)
      [] shape = "zigzag" -> 4 + (i % 2)

PriceShapes == {"flat", "ramp", "saw", "zigzag"}

Series(shape, n) == [k \in 1..n |-> PriceOf(shape, k - 1)]

\* the series with every bar of index > k replaced by another price
Perturb(closes, k) ==
    [j \in 1..Len(closes) |->
        IF j - 1 > k THEN (closes[j] % MaxPrice) + 1 ELSE closes[j]]

\* the draws of np.random.uniform(800000, 1200000, n) that are told apart:
\* one sequence per seed
Seeds == 1..NumSeeds

Draw(seed, i) == 800000 + ((seed * 104729 + seed * i * 7919) % 400001)

Drawn(seed, n) == [j \in 1..n |-> Draw(seed, j - 1)]

\* the volumes that repeat an earlier draw up to index k and follow a seed after it
Redrawn(volumes, seed, k) ==
    [j \in 1..Len(volumes) |-> IF j - 1 > k THEN Draw(seed, j - 1) ELSE volumes[j]]

\* the indices after which a second call's input departs from the first's
Cuts(n, w) == {c \in {w, (w + n) \div 2} : c < n}

\* <<series length, window length>> of the direct calls
SeqCases ==
    {<<n, w>> \in (0..MaxShort) \X {1, 2} : TRUE} \cup
    {<<VOL_PERIOD + 5, 2>>, <<SMA_SLOW + 3, SMA_SLOW - 1>>} \cup
    {<<SEQ_LENGTH + d, SEQ_LENGTH>> : d \in {0, 1, 2, 3}}

\* series lengths of the train_model runs
FetchLengths ==
    {0, 2 * SEQ_LENGTH - 1, 2 * SEQ_LENGTH, 2 * SEQ_LENGTH + 1,
     2 * SEQ_LENGTH + 5, 2 * SEQ_LENGTH + 6}

IdleSequence ==
    /\ data = <<>>
    /\ seq_length = 0
    /\ seq_calls = <<>>
    /\ tm = NoTrainModel

IdlePipeline ==
    /\ csv_files = <<>>
    /\ fundamentals = [exists |-> FALSE, tickers |-> {}]
    /\ master = [exists |-> FALSE, blocks |-> <<>>]
    /\ notifier = "delivers"
    /\ run = NoRun

IdleFeatures ==
    /\ df = EmptyFrame
    /\ features_df = EmptyFrame
    /\ fe_calls = 0

InitPipeline ==
    /\ prog = "ml_pipeline"
    /\ pc = "start"
    /\ csv_files \in FileSeqs
    /\ fundamentals \in FundChoices
    /\ master = [exists |-> FALSE, blocks |-> <<>>]
    /\ notifier \in {"delivers", "raises", "never_answers"}
    /\ run = NoRun
    /\ IdleFeatures
    /\ IdleSequence

\* close of bar i (in hundredths) of each series shape
CloseOf(shape, i) ==
    CASE shape = "rise_fast" -> 100 * (100 + i)
      [] shape = "rise_slow" -> 100 * (1000 + i)
      [] shape = "flat"      -> 10000
      [] shape = "fall"      -> 100 * (400 - i)
      [] shape = "zigzag"    -> 100 * (100 + (i % 2))
      [] shape = "steps"     -> 100 * (100 + (i \div 20))

Shapes == {"rise_fast", "rise_slow", "flat", "fall", "zigzag", "steps"}

VolumeOf(vshape, i) == IF vshape = "const" THEN 1000 ELSE 1000 + 100 * (i % 3)

VolumeShapes == {"const", "varying"}

\* a frame of n bars: high = close x 1.01, low = close x 0.99, open = close
Frame(shape, vshape, n) ==
    [Date   |-> [i \in 1..n |-> i],
     Open   |-> [i \in 1..n |-> CloseOf(shape, i)],
     High   |-> [i \in 1..n |-> (CloseOf(shape, i) \div 100) * 101],
     Low    |-> [i \in 1..n |-> (CloseOf(shape, i) \div 100) * 99],
     Close  |-> [i \in 1..n |-> CloseOf(shape, i)],
     Volume |-> [i \in 1..n |-> VolumeOf(vshape, i)]]

FrameLengths ==
    {SMA_SLOW - 1, SMA_SLOW, SMA_SLOW + FORWARD_DAYS - 1, SMA_SLOW + FORWARD_DAYS,
     SMA_SLOW + ExtraBars}

InitFeatures ==
    /\ prog = "features"
    /\ pc = "start"
    /\ \E shape \in Shapes, vshape \in VolumeShapes, n \in FrameLengths :
           df = Frame(shape, vshape, n)
    /\ features_df = EmptyFrame
    /\ fe_calls = 0
    /\ IdlePipeline
    /\ IdleSequence

\* a session of direct calls (seq_length > 0) or of train_model (seq_length = 0)
InitSequence ==
    /\ prog = "train_stock_model"
    /\ pc = "start"
    /\ \E shape \in PriceShapes :
          \/ \E c \in SeqCases : data = Series(shape, c[1]) /\ seq_length = c[2]
          \/ \E n \in FetchLengths : data = Series(shape, n) /\ seq_length = 0
    /\ seq_calls = <<>>
    /\ tm = NoTrainModel
    /\ IdlePipeline
    /\ IdleFeatures

\* create_sequences_multi_factor(data, seq_length), first call
CallCreateSequences ==
    /\ prog = "train_stock_model"
    /\ seq_length > 0
    /\ seq_calls = <<>>
    /\ \E seed \in Seeds :
          seq_calls' = <<CallRecord(data, Drawn(seed, Len(data)), seq_length)>>
    /\ UNCHANGED <<prog, pc, data, seq_length, tm, pipeline_vars, features_vars>>

\* a second call: on the same series with a fresh draw of the volumes, or on
\* a series (and a draw) that departs from the first call's after bar k
CallCreateSequencesAgain ==
    /\ prog = "train_stock_model"
    /\ seq_length > 0
    /\ Len(seq_calls) = 1
    /\ \E seed \in Seeds, k \in Cuts(Len(data), seq_length) \cup {-1} :
          seq_calls' =
              Append(seq_calls,
                     IF k = -1
                     THEN CallRecord(data, Drawn(seed, Len(data)), seq_length)
                     ELSE CallRecord(Perturb(data, k),
                                     Redrawn(seq_calls[1].volumes, seed, k),
                                     seq_length))
    /\ UNCHANGED <<prog, pc, data, seq_length, tm, pipeline_vars, features_vars>>

TrainModel ==
    /\ prog = "train_stock_model"
    /\ seq_length = 0
    /\ pc = "start"
    /\ \E s \in Seeds :
          tm' = TrainModelResult(data, Drawn(s, Len(data)))
    /\ pc' = "returned"
    /\ UNCHANGED <<prog, data, seq_length, seq_calls, pipeline_vars, features_vars>>

Init == InitPipeline \/ InitFeatures \/ InitSequence

Next ==
    \/ ProcessAllTickers
    \/ TrainXgboostModel
    \/ PostReturns
    \/ PostRaises
    \/ CallComputeOrthogonalFeatures
    \/ CallCreateSequences
    \/ CallCreateSequencesAgain
    \/ TrainModel

Spec == Init /\ [][Next]_vars

\* the tabular pipeline alone; every step of a script that can be taken is taken
NextPipeline ==
    \/ ProcessAllTickers
    \/ TrainXgboostModel
    \/ PostReturns
    \/ PostRaises

FairSpec == InitPipeline /\ [][NextPipeline]_vars /\ WF_vars(NextPipeline)

----------------------------------------------------------------------------
(* Properties of the tabular training run *)

\* rows of the CSV that miss no required feature or label
RECURSIVE ValidRowCount(_)
ValidRowCount(t) ==
    IF t = <<>> THEN 0
    ELSE (IF Head(t).fund THEN Head(t).n ELSE 0) + ValidRowCount(Tail(t))

\* train_xgboost_model has counted the valid rows of the CSV
SafeguardReached ==
    /\ prog = "ml_pipeline"
    /\ pc \in {"requests_post", "returned"}
    /\ master.exists
    /\ HasFundColumns(master.blocks)

\* C1: below 50,000 valid rows the estimator is never invoked (no fit, no
\* export) and an alert dispatch has been attempted before the run returns;
\* from 50,000 valid rows on no alert is attempted and the estimator is fitted.
C1_SafeguardGate ==
    SafeguardReached =>
        IF ValidRowCount(master.blocks) < 50000
        THEN /\ run.fit_calls = 0
             /\ ~run.exported
             /\ run.alert_attempts = 1
        ELSE /\ run.alert_attempts = 0
             /\ run.fit_calls = 1

C1_Witness ==
    /\ SafeguardReached
    /\ pc = "returned"
    /\ ValidRowCount(master.blocks) = 49999
    /\ run.alert_attempts = 1
    /\ run.fit_calls = 0

\* C2: once the safeguard has decided to abort (the alert POST is issued),
\* the run terminates without invoking the estimator, whatever the notifier
\* does.
C2_AbortAlwaysReturns ==
    (prog = "ml_pipeline" /\ pc = "requests_post")
        ~> (pc = "returned" /\ run.fit_calls = 0)

\* C4: no row of the train subset is dated later than a row of the test subset.
C4_TrainPrecedesTest ==
    (prog = "ml_pipeline" /\ run.fit_calls = 1 /\ run.X_train # <<>> /\ run.X_test # <<>>)
        => MaxDate(run.X_train) <= MinDate(run.X_test)

\* C3: the partitioner returns a prefix and a suffix whose concatenation is
\* the dataset in its order, and the prefix has floor(0.8 x N) elements, in
\* train_xgboost_model and in train_model alike.
C3_PartitionReconstructs ==
    /\ (prog = "ml_pipeline" /\ run.fit_calls = 1) =>
          /\ Concat(run.X_train, run.X_test) = run.df
          /\ Rows(run.X_train) = (8 * Rows(run.df)) \div 10
    /\ (prog = "train_stock_model" /\ tm.fit_calls = 1) =>
          /\ tm.X_train \o tm.X_val = tm.X
          /\ tm.y_train \o tm.y_val = tm.y
          /\ Len(tm.X_train) = (8 * Len(tm.X)) \div 10

C3_Witness ==
    /\ prog = "ml_pipeline"
    /\ run.fit_calls = 1
    /\ Rows(run.df) = 50001
    /\ Rows(run.X_train) = 40000
    /\ Rows(run.X_test) = 10001

----------------------------------------------------------------------------
(* Properties of create_sequences_multi_factor *)

\* the log return from bar t to bar t+1 (indices from 0) of a close series
ReturnAfter(closes, t) == LnMicro[closes[t + 2]] - LnMicro[closes[t + 1]]

\* two arrays agree on the indices 0..t
AgreeUpTo(a, b, t) == \A j \in 1..(t + 1) : a[j] = b[j]

\* reference bar of the k-th sample of a call
RefBar(call, k) == call.seq_length + k - 1

\* C5: the features of the sample with reference bar t are the same for any
\* two inputs that agree on the bars (and drawn volumes) of index <= t, and
\* its label is the log return from bar t to bar t+1.
C5_NoLookAhead ==
    \A m \in 1..Len(seq_calls), n \in 1..Len(seq_calls) :
        LET c1 == seq_calls[m]
            c2 == seq_calls[n]
        IN  \A k \in 1..Len(c1.X) :
                /\ c1.y[k] = ReturnAfter(c1.data, RefBar(c1, k))
                /\ ( /\ k <= Len(c2.X)
                     /\ AgreeUpTo(c1.data, c2.data, RefBar(c1, k))
                     /\ AgreeUpTo(c1.volumes, c2.volumes, RefBar(c1, k)) )
                   => c1.X[k] = c2.X[k]

\* two calls whose inputs part right after the reference bar of a sample
\* with every indicator past its lookback: same features, other label
C5_Witness ==
    /\ Len(seq_calls) = 2
    /\ \E k \in 1..Len(seq_calls[1].X) :
          LET t == RefBar(seq_calls[1], k)
          IN  /\ t >= VOL_PERIOD
              /\ AgreeUpTo(seq_calls[1].data, seq_calls[2].data, t)
              /\ seq_calls[1].data[t + 2] # seq_calls[2].data[t + 2]
              /\ seq_calls[1].X[k] = seq_calls[2].X[k]
              /\ seq_calls[1].y[k] # seq_calls[2].y[k]

\* C6: a call on L bars with window W returns max(0, L-1-W) pairs, the k-th
\* being the window that ends at bar t = W+k-1 (so t runs from W to L-2 in
\* ascending order), every vector has W+4 entries and every label index
\* lies inside the log-return series.
C6_WindowCountAndOrder ==
    \A m \in 1..Len(seq_calls) :
        LET c == seq_calls[m]
            n == Len(c.data)
            w == c.seq_length
            count == IF n - 1 - w > 0 THEN n - 1 - w ELSE 0
        IN  /\ Len(c.X) = count
            /\ Len(c.y) = count
            /\ \A k \in 1..Len(c.X) :
                  /\ Len(c.X[k]) = w + 4
                  /\ RefBar(c, k) <= n - 2
                  /\ \A j \in 1..w :
                        c.X[k][j] = ReturnAfter(c.data, RefBar(c, k) - w + j - 1)

C6_Witness ==
    \E m \in 1..Len(seq_calls) :
        /\ Len(seq_calls[m].data) = 5
        /\ seq_calls[m].seq_length = 2
        /\ Len(seq_calls[m].X) = 2

IsFlat(closes) == \A j \in 1..Len(closes) : closes[j] = closes[1]

\* C7 as stated: a 61-bar flat series with W = 60 yields exactly 1 window,
\* whose 60 log returns are 0 and whose label is 0.
C7_FlatSeries61 ==
    \A m \in 1..Len(seq_calls) :
        LET c == seq_calls[m]
        IN  (Len(c.data) = 61 /\ IsFlat(c.data) /\ c.seq_length = 60) =>
                /\ Len(c.X) = 1
                /\ \A j \in 1..60 : c.X[1][j] = 0
                /\ c.y = <<0>>

\* C7 amended: a 61-bar flat series with W = 60 yields no window; a 62-bar
\* flat series yields exactly 1 window, whose 60 log returns are 0 and whose
\* label is 0.
C7_FlatSeries62 ==
    \A m \in 1..Len(seq_calls) :
        LET c == seq_calls[m]
        IN  (IsFlat(c.data) /\ c.seq_length = 60) =>
                /\ Len(c.data) = 61 => (c.X = <<>> /\ c.y = <<>>)
                /\ Len(c.data) = 62 =>
                      /\ Len(c.X) = 1
                      /\ \A j \in 1..60 : c.X[1][j] = 0
                      /\ c.y = <<0>>

C7_Witness ==
    \E m \in 1..Len(seq_calls) :
        /\ Len(seq_calls[m].data) = 62
        /\ IsFlat(seq_calls[m].data)
        /\ seq_calls[m].seq_length = 60
        /\ Len(seq_calls[m].X) = 1

\* C10: two calls on the same series and window length return identical
\* vectors and labels.
C10_SameInputSameOutput ==
    \A m \in 1..Len(seq_calls), n \in 1..Len(seq_calls) :
        ( /\ seq_calls[m].data = seq_calls[n].data
          /\ seq_calls[m].seq_length = seq_calls[n].seq_length ) =>
            /\ seq_calls[m].X = seq_calls[n].X
            /\ seq_calls[m].y = seq_calls[n].y

----------------------------------------------------------------------------
(* Properties of compute_orthogonal_features *)

\* a step of the program that is a first call on a frame of raw columns
FirstFeatureCall == fe_calls = 0 /\ fe_calls' = 1

\* 260 strictly rising closes, constant volume, high and low at +-1 %
IsRisingFrame(f) ==
    /\ FrameLen(f) = 260
    /\ \A i \in 2..260 : f.Close[i] > f.Close[i - 1]
    /\ \A i \in 1..260 : /\ f.Volume[i] = f.Volume[1]
                         /\ f.High[i] * 100 = f.Close[i] * 101
                         /\ f.Low[i] * 100 = f.Close[i] * 99

TrendUndefinedBelow(lo) ==
    (prog = "features" /\ fe_calls = 1) =>
        \A k \in 1..FrameLen(features_df) : features_df.Date[k] - 1 >= lo

\* the ratio of the 50 and 200 bars before index t (from 0)
PriorBarsRatio(closes, t) ==
    Frac(SumRange([j \in 1..Len(closes) |-> closes[j]], t - SMA_FAST + 1, t) * SMA_SLOW,
         SumRange([j \in 1..Len(closes) |-> closes[j]], t - SMA_SLOW + 1, t) * SMA_FAST)

\* In the sequential path the ratio is 1.0 at every index below 200 and the
\* ratio of the prior bars from index 200 on.
TrendDefaultBelow200 ==
    \A m \in 1..Len(seq_calls) :
        LET c == seq_calls[m]
        IN  \A k \in 1..Len(c.X) :
                c.X[k][c.seq_length + 2] =
                    IF RefBar(c, k) < SMA_SLOW THEN <<1, 1>>
                    ELSE PriorBarsRatio(c.data, RefBar(c, k))

MovesBefore200(f) == \E j \in 187..200 : f.Close[j] # f.Close[j - 1]

C11_CallLeavesInputUnchanged ==
    [][ (prog = "features" /\ fe_calls' = fe_calls + 1) =>
            /\ df' = df
            /\ fe_calls = 1 => features_df' = features_df ]_vars

----------------------------------------------------------------------------
(* Properties of merge_fundamentals inside process_all_tickers *)

\* the table the master dataset holds for a price file whose features are
\* not empty: its rows, with the static values exactly when the lookup has
\* the ticker
MergedBlock(file, fund_df) ==
    [ticker |-> file.ticker,
     first  |-> FeatureRows(file)[1],
     n      |-> FeatureRows(file)[2],
     fund   |-> file.ticker \in fund_df.tickers]

\* C12: merge_fundamentals never fails; with a lookup that lacks the
\* ticker, the empty lookup included, the table comes back unchanged and
\* its rows reach the master dataset; with a lookup that has the ticker
\* every row carries the static values.  Stated where process_all_tickers
\* has returned.
C12_MergeIsLenient ==
    (prog = "ml_pipeline" /\ pc = "features_done") =>
        \A i \in 1..Len(csv_files) :
            FeatureRows(csv_files[i])[2] > 0 =>
                /\ master.exists
                /\ \E b \in 1..Len(master.blocks) :
                      master.blocks[b] = MergedBlock(csv_files[i], fundamentals)

----------------------------------------------------------------------------
(* Properties of the oscillator in both paths *)

\* a float that is a number in [lo, hi]
InRange(r, lo, hi) == r[2] > 0 /\ lo * r[2] <= r[1] /\ r[1] <= hi * r[2]

\* no close of the rows first..last (counted from 1) is below the close
\* before it: the mean loss over those deltas is zero
NoLossOver(close, first, last) == \A j \in first..last : close[j] >= close[j - 1]

\* Tabular path, for a first call on a frame f that returned the table out:
\* every row with full lookbacks and forward window whose 14 deltas have no
\* loss is emitted with RSI_14 = 100, and every emitted RSI_14 is in [0, 100].
TabularRsiPolicy(f, out) ==
    /\ \A i \in SMA_SLOW..(FrameLen(f) - FORWARD_DAYS) :
          NoLossOver(f.Close, i - RSI_PERIOD + 1, i) =>
              \E k \in 1..FrameLen(out) :
                  out.Date[k] = f.Date[i] /\ out.RSI_14[k] = <<100, 1>>
    /\ \A k \in 1..FrameLen(out) : InRange(out.RSI_14[k], 0, 100)

\* Sequential path: the rsi entry (rsi / 100) of every vector is in [0, 1],
\* and is 1 where the 14 deltas calculate_rsi averages for the reference
\* bar have no loss.
SequentialRsiPolicy ==
    \A m \in 1..Len(seq_calls) :
        LET c == seq_calls[m]
        IN  \A k \in 1..Len(c.X) :
                LET t == RefBar(c, k)
                    r == c.X[k][c.seq_length + 1]
                IN  /\ InRange(r, 0, 1)
                    /\ (t > RSI_PERIOD /\ NoLossOver(c.data, t - RSI_PERIOD + 1, t))
                          => r = <<1, 1>>

\* C13: in both paths the oscillator is exactly 100 wherever the 14-delta
\* lookback is satisfied and the mean loss over the window is zero, flat
\* windows included; it is never missing there, and every defined value
\* lies in [0, 100].
C13_ZeroLossGives100 ==
    /\ []SequentialRsiPolicy
    /\ [][ (prog = "features" /\ FirstFeatureCall /\ FrameLen(df) >= SMA_SLOW)
              => TabularRsiPolicy(df, features_df') ]_vars

====
